---- MODULE Spec2Model ----
(***************************************************************************)
(* Model of td's generic undo layer, td-util/src/undo.rs: UndoWrapper<T>.  *)
(*                                                                         *)
(* The wrapper's three fields are the variables states, current_index and  *)
(* clean_index.  Rust indices are 0-based, TLA+ sequences 1-based, so the  *)
(* snapshot at Rust index i is states[i + 1].  T is instantiated with the  *)
(* integers (closures from Funcs) and with the Database (from DbFuncs).    *)
(*                                                                         *)
(* calls is the caller's log: one entry per call made on the wrapper, with *)
(* the value the call returned and what undo_count() and state() answered  *)
(* right after it.  The claims about sequences of calls read this log.     *)
(***************************************************************************)
EXTENDS Integers, Sequences, FiniteSets

VARIABLES states, current_index, clean_index, calls

\* The store (td-lib): db is the Database, dbcall the caller's record of the
\* calls made on it; disk is the database file, app what AppState::create
\* returned and io the file operations made so far.
VARIABLES db, dbcall, disk, app, io

\* The interface (td-tui): components is the Vec of a ComponentCollection,
\* keys the log of what insert was given and what it returned, and input the
\* record of the last process_input call on the collection.
VARIABLES components, keys, input

undovars == <<states, current_index, clean_index, calls>>
dbvars == <<db, dbcall>>
filevars == <<disk, app, io>>
uivars == <<components, keys, input>>
vars == <<states, current_index, clean_index, calls, db, dbcall, disk, app, io,
          components, keys, input>>

\* Number of calls made on one wrapper.
MaxCalls == 6

\* Option<usize>
None == <<>>
Some(i) == <<i>>

\* Return values: () and bool.
Unit == <<>>
Bool(b) == <<b>>

\* Vec indexing panics on an index out of range; the panic is a value outside T.
Panic == -1

(***************************************************************************)
(* td-lib: the Database, a petgraph StableDiGraph<Task, TaskDependency>    *)
(* plus the id-to-index cache.                                             *)
(*                                                                         *)
(* The graph is modelled as petgraph keeps it: node and edge slots that a  *)
(* removal leaves vacant, a free list per kind from which add_node and     *)
(* add_edge take the most recently vacated slot, and per node the list of  *)
(* its outgoing and incoming edges, newest first.  NodeIndex i is slot     *)
(* i + 1 here.                                                             *)
(***************************************************************************)

\* Slots of the graph's node and edge vectors.
MaxNodes == 3
MaxEdges == 3

\* Calls made on one Database.
MaxDbCalls == 6

Ids == {"a", "b", "c"}

Task(id, title, started, tags) ==
    [id |-> id, title |-> title, time_created |-> 1,
     time_started |-> started, time_completed |-> None, tags |-> tags]

\* The tasks handed to add_task.  The last one carries the id of the first:
\* TaskId::new() draws ids at random and checks nothing.
TaskPool ==
    { Task("a", "Buy milk", None, <<>>),
      Task("b", "Go to store", Some(2), <<>>),
      Task("c", "Walk", None, <<"home", "home">>),
      Task("a", "Buy bread", None, <<"food">>) }

Remove(seq, x) == SelectSeq(seq, LAMBDA y : y # x)

SetMin(S) == CHOOSE x \in S : \A y \in S : x <= y

StableGraph_new ==
    [nodes |-> <<>>, free_node |-> <<>>, edges |-> <<>>, free_edge |-> <<>>,
     out |-> <<>>, inc |-> <<>>]

contains_node(g, a) == a \in 1..Len(g.nodes) /\ g.nodes[a] # None

contains_edge_index(g, e) == e \in 1..Len(g.edges) /\ g.edges[e] # None

\* The occupied slots, in index order.
node_indices(g) ==
    SelectSeq([i \in 1..Len(g.nodes) |-> i], LAMBDA i : g.nodes[i] # None)

edge_indices(g) ==
    SelectSeq([i \in 1..Len(g.edges) |-> i], LAMBDA i : g.edges[i] # None)

node_weights(g) == [k \in 1..Len(node_indices(g)) |-> g.nodes[node_indices(g)[k]][1]]

add_node(g, weight) ==
    IF g.free_node # <<>>
    THEN LET a == Head(g.free_node)
         IN  [g |-> [g EXCEPT !.nodes[a] = Some(weight), !.free_node = Tail(@)],
              index |-> a]
    ELSE [g |-> [g EXCEPT !.nodes = Append(@, Some(weight)),
                          !.out = Append(@, <<>>),
                          !.inc = Append(@, <<>>)],
          index |-> Len(g.nodes) + 1]

\* add_edge panics when an endpoint is not a node of the graph.
add_edge(g, a, b) ==
    IF ~(contains_node(g, a) /\ contains_node(g, b))
    THEN [g |-> g, index |-> 0, panic |-> TRUE]
    ELSE LET e == IF g.free_edge # <<>> THEN Head(g.free_edge) ELSE Len(g.edges) + 1
             slots == IF g.free_edge # <<>>
                      THEN [g EXCEPT !.edges[e] = Some(<<a, b>>), !.free_edge = Tail(@)]
                      ELSE [g EXCEPT !.edges = Append(@, Some(<<a, b>>))]
             linked == [slots EXCEPT !.out[a] = <<e>> \o @]
         IN  [g |-> [linked EXCEPT !.inc[b] = <<e>> \o @], index |-> e, panic |-> FALSE]

remove_edge(g, e) ==
    IF ~contains_edge_index(g, e)
    THEN g
    ELSE LET a == g.edges[e][1][1]
             b == g.edges[e][1][2]
             unlinked == [g EXCEPT !.out[a] = Remove(@, e)]
         IN  [unlinked EXCEPT !.inc[b] = Remove(@, e),
                              !.edges[e] = None,
                              !.free_edge = <<e>> \o @]

\* remove_node's loop over one direction: remove the head of the node's edge
\* list until the list is empty.
RECURSIVE remove_edges_of(_, _, _)
remove_edges_of(g, a, outgoing) ==
    LET list == IF outgoing THEN g.out[a] ELSE g.inc[a]
    IN  IF list = <<>> THEN g
        ELSE remove_edges_of(remove_edge(g, Head(list)), a, outgoing)

\* What petgraph's plain Graph does: the last node moves into the vacated slot.
remove_node_swap(g, a) ==
    IF ~contains_node(g, a)
    THEN g
    ELSE LET drained == remove_edges_of(remove_edges_of(g, a, TRUE), a, FALSE)
             last == Len(drained.nodes)
         IN  IF last = a
             THEN [drained EXCEPT !.nodes[a] = None, !.free_node = <<a>> \o @]
             ELSE [drained EXCEPT !.nodes[a] = drained.nodes[last],
                                  !.nodes[last] = None,
                                  !.free_node = <<last>> \o @]

remove_node_edgesonly(g, a) ==
    IF ~contains_node(g, a)
    THEN g
    ELSE remove_edges_of(remove_edges_of(g, a, TRUE), a, FALSE)

remove_node_outonly(g, a) ==
    IF ~contains_node(g, a)
    THEN g
    ELSE LET drained == remove_edges_of(g, a, TRUE)
         IN  [drained EXCEPT !.nodes[a] = None, !.free_node = <<a>> \o @]

remove_node(g, a) ==
    IF ~contains_node(g, a)
    THEN g
    ELSE LET drained == remove_edges_of(remove_edges_of(g, a, TRUE), a, FALSE)
         IN  [drained EXCEPT !.nodes[a] = None, !.free_node = <<a>> \o @]

\* edges_directed(a, dir): the node's edge list in that direction.
edges_directed(g, a, outgoing) == IF outgoing THEN g.out[a] ELSE g.inc[a]

\* HashMap<TaskId, NodeIndex>
HashMap_new == [k \in {} |-> 0]
HashMap_insert(m, k, v) == [x \in DOMAIN m \cup {k} |-> IF x = k THEN v ELSE m[x]]
HashMap_remove(m, k) == [x \in DOMAIN m \ {k} |-> m[x]]

Database_default == [graph |-> StableGraph_new, task_id_to_index |-> HashMap_new]

get_node_index_nofallback(d, task_id) ==
    IF task_id \in DOMAIN d.task_id_to_index
    THEN Some(d.task_id_to_index[task_id])
    ELSE None

get_node_index_neq(d, task_id) ==
    IF task_id \in DOMAIN d.task_id_to_index
    THEN Some(d.task_id_to_index[task_id])
    ELSE LET hits == {i \in 1..Len(d.graph.nodes) :
                         d.graph.nodes[i] # None /\ d.graph.nodes[i][1].id # task_id}
         IN  IF hits = {} THEN None ELSE Some(SetMin(hits))

get_node_index(d, task_id) ==
    IF task_id \in DOMAIN d.task_id_to_index
    THEN Some(d.task_id_to_index[task_id])
    ELSE LET hits == {i \in 1..Len(d.graph.nodes) :
                         d.graph.nodes[i] # None /\ d.graph.nodes[i][1].id = task_id}
         IN  IF hits = {} THEN None ELSE Some(SetMin(hits))

\* Index<&TaskId>: the task, or a panic when the id resolves to nothing.  The
\* graph's own indexing panics on a vacant slot.
index(d, task_id) ==
    LET node_index == get_node_index(d, task_id)
    IN  IF node_index = None \/ ~contains_node(d.graph, node_index[1])
        THEN [panic |-> TRUE, task |-> None]
        ELSE [panic |-> FALSE, task |-> d.graph.nodes[node_index[1]]]

add_task_nocache(d, task) ==
    LET r == add_node(d.graph, task)
    IN  [graph |-> r.g, task_id_to_index |-> d.task_id_to_index]

add_task(d, task) ==
    LET r == add_node(d.graph, task)
    IN  [graph |-> r.g, task_id_to_index |-> HashMap_insert(d.task_id_to_index, task.id, r.index)]

remove_task(d, task_id) ==
    LET c == [d EXCEPT !.task_id_to_index = HashMap_remove(@, task_id)]
        task_index == get_node_index(c, task_id)
    IN  IF task_index = None THEN c
        ELSE [c EXCEPT !.graph = remove_node(@, task_index[1])]

get_all_tasks(d) == node_weights(d.graph)

\* An add_dependency that keeps one edge per ordered pair.
add_dependency_once(d, from, to) ==
    LET from_index == get_node_index(d, from)
        to_index == get_node_index(d, to)
    IN  IF from_index = None \/ to_index = None
        THEN [db |-> d, panic |-> TRUE]
        ELSE IF \E e \in 1..Len(d.graph.edges) :
                    d.graph.edges[e] = Some(<<from_index[1], to_index[1]>>)
        THEN [db |-> d, panic |-> FALSE]
        ELSE LET r == add_edge(d.graph, from_index[1], to_index[1])
             IN  [db |-> [d EXCEPT !.graph = r.g], panic |-> r.panic]

\* An add_dependency that refuses a self-loop and the reverse of an edge.
add_dependency_acyclic(d, from, to) ==
    LET from_index == get_node_index(d, from)
        to_index == get_node_index(d, to)
    IN  IF from_index = None \/ to_index = None
        THEN [db |-> d, panic |-> TRUE]
        ELSE IF \/ from_index = to_index
                \/ \E e \in 1..Len(d.graph.edges) :
                      d.graph.edges[e] = Some(<<to_index[1], from_index[1]>>)
        THEN [db |-> d, panic |-> TRUE]
        ELSE LET r == add_edge(d.graph, from_index[1], to_index[1])
             IN  [db |-> [d EXCEPT !.graph = r.g], panic |-> r.panic]

add_dependency_swapped(d, from, to) ==
    LET from_index == get_node_index(d, from)
        to_index == get_node_index(d, to)
    IN  IF from_index = None \/ to_index = None
        THEN [db |-> d, panic |-> TRUE]
        ELSE LET r == add_edge(d.graph, to_index[1], from_index[1])
             IN  [db |-> [d EXCEPT !.graph = r.g], panic |-> r.panic]

add_dependency(d, from, to) ==
    LET from_index == get_node_index(d, from)
        to_index == get_node_index(d, to)
    IN  IF from_index = None \/ to_index = None
        THEN [db |-> d, panic |-> TRUE]
        ELSE LET r == add_edge(d.graph, from_index[1], to_index[1])
             IN  [db |-> [d EXCEPT !.graph = r.g], panic |-> r.panic]

\* The tasks a query yields, in the order of the node's edge list.
get_dependencies(d, source) ==
    LET source_index == get_node_index(d, source)
    IN  IF source_index = None \/ ~contains_node(d.graph, source_index[1])
        THEN [panic |-> TRUE, tasks |-> <<>>]
        ELSE LET es == edges_directed(d.graph, source_index[1], TRUE)
             IN  [panic |-> FALSE,
                  tasks |-> [k \in 1..Len(es) |-> d.graph.nodes[d.graph.edges[es[k]][1][2]][1]]]

get_inverse_dependencies_outgoing(d, target) ==
    LET target_index == get_node_index(d, target)
    IN  IF target_index = None \/ ~contains_node(d.graph, target_index[1])
        THEN [panic |-> TRUE, tasks |-> <<>>]
        ELSE LET es == edges_directed(d.graph, target_index[1], TRUE)
             IN  [panic |-> FALSE,
                  tasks |-> [k \in 1..Len(es) |-> d.graph.nodes[d.graph.edges[es[k]][1][2]][1]]]

get_inverse_dependencies(d, target) ==
    LET target_index == get_node_index(d, target)
    IN  IF target_index = None \/ ~contains_node(d.graph, target_index[1])
        THEN [panic |-> TRUE, tasks |-> <<>>]
        ELSE LET es == edges_directed(d.graph, target_index[1], FALSE)
             IN  [panic |-> FALSE,
                  tasks |-> [k \in 1..Len(es) |-> d.graph.nodes[d.graph.edges[es[k]][1][1]][1]]]

(***************************************************************************)
(* The disk model (v1/file_model.rs) and its JSON form.  A JSON object is  *)
(* a function from its keys; serde leaves out the keys marked              *)
(* skip_serializing_if and fills them with the default when reading.       *)
(***************************************************************************)
TaskDiskModel_new(task) == [task |-> task, dependencies |-> <<>>]

\* The "collect edges" loop: for each edge, find both ends in the list and
\* push the end's id onto the start's dependencies.
RECURSIVE collect_edges(_, _, _)
collect_edges(g, list, es) ==
    IF es = <<>> THEN [panic |-> FALSE, list |-> list]
    ELSE LET e == Head(es)
             ends == {k \in 1..Len(list) : list[k].idx = g.edges[e][1][2]}
             starts == {k \in 1..Len(list) : list[k].idx = g.edges[e][1][1]}
         IN  IF ends = {} \/ starts = {}
             THEN [panic |-> TRUE, list |-> list]
             ELSE collect_edges(g,
                      [list EXCEPT ![SetMin(starts)].model.dependencies =
                                        Append(@, list[SetMin(ends)].model.task.id)],
                      Tail(es))

\* The conversion without its "collect edges" loop.
DatabaseDiskModel_from_nodesonly(d) ==
    LET g == d.graph
        ni == node_indices(g)
    IN  [panic |-> FALSE,
         tasks |-> [k \in 1..Len(ni) |-> TaskDiskModel_new(g.nodes[ni[k]][1])]]

\* From<Database> for DatabaseDiskModel
DatabaseDiskModel_from(d) ==
    LET g == d.graph
        ni == node_indices(g)
        list == [k \in 1..Len(ni) |->
                    [idx |-> ni[k], model |-> TaskDiskModel_new(g.nodes[ni[k]][1])]]
        r == collect_edges(g, list, edge_indices(g))
    IN  [panic |-> r.panic, tasks |-> [k \in 1..Len(r.list) |-> r.list[k].model]]

\* The "store nodes" loop.
RECURSIVE store_nodes(_, _)
store_nodes(acc, tasks) ==
    IF tasks = <<>> THEN acc
    ELSE LET r == add_node(acc.graph, Head(tasks).task)
         IN  store_nodes([graph |-> r.g,
                          id_index_map |-> HashMap_insert(acc.id_index_map,
                                                          Head(tasks).task.id, r.index)],
                         Tail(tasks))

\* The (source id, target id) pairs in the order the "store edges" loops
\* visit them.
RECURSIVE dependency_pairs(_)
dependency_pairs(tasks) ==
    IF tasks = <<>> THEN <<>>
    ELSE [k \in 1..Len(Head(tasks).dependencies) |->
             <<Head(tasks).task.id, Head(tasks).dependencies[k]>>]
         \o dependency_pairs(Tail(tasks))

\* The "store edges" loops; indexing the HashMap with a missing key panics.
RECURSIVE store_edges(_, _)
store_edges(acc, pairs) ==
    IF pairs = <<>> THEN [panic |-> FALSE, graph |-> acc.graph]
    ELSE LET source_id == Head(pairs)[1]
             target_id == Head(pairs)[2]
         IN  IF ~({source_id, target_id} \subseteq DOMAIN acc.id_index_map)
             THEN [panic |-> TRUE, graph |-> acc.graph]
             ELSE LET r == add_edge(acc.graph, acc.id_index_map[source_id],
                                    acc.id_index_map[target_id])
                  IN  IF r.panic THEN [panic |-> TRUE, graph |-> acc.graph]
                      ELSE store_edges([acc EXCEPT !.graph = r.g], Tail(pairs))

\* The "store edges" loops run from the last pair to the first.
Database_from_backwards(model) ==
    LET stored == store_nodes([graph |-> StableGraph_new, id_index_map |-> HashMap_new],
                              model.tasks)
        pairs == dependency_pairs(model.tasks)
        r == store_edges(stored, [k \in 1..Len(pairs) |-> pairs[Len(pairs) + 1 - k]])
    IN  [panic |-> r.panic,
         db |-> [graph |-> r.graph, task_id_to_index |-> stored.id_index_map]]

Database_from_reversed(model) ==
    LET stored == store_nodes([graph |-> StableGraph_new, id_index_map |-> HashMap_new],
                              model.tasks)
        pairs == dependency_pairs(model.tasks)
        r == store_edges(stored, [k \in 1..Len(pairs) |-> <<pairs[k][2], pairs[k][1]>>])
    IN  [panic |-> r.panic,
         db |-> [graph |-> r.graph, task_id_to_index |-> stored.id_index_map]]

\* From<DatabaseDiskModel> for Database
Database_from(model) ==
    LET stored == store_nodes([graph |-> StableGraph_new, id_index_map |-> HashMap_new],
                              model.tasks)
        r == store_edges(stored, dependency_pairs(model.tasks))
    IN  [panic |-> r.panic,
         db |-> [graph |-> r.graph, task_id_to_index |-> stored.id_index_map]]

\* Serialize for TaskDiskModel (task flattened into it).
TaskKeys(m) ==
    {"id", "title", "time_created"}
        \cup (IF m.dependencies # <<>> THEN {"dependencies"} ELSE {})
        \cup (IF m.task.time_started # None THEN {"time_started"} ELSE {})
        \cup (IF m.task.time_completed # None THEN {"time_completed"} ELSE {})
        \cup (IF m.task.tags # <<>> THEN {"tags"} ELSE {})

TaskDiskModel_serialize(m) ==
    [k \in TaskKeys(m) |->
        CASE k = "id" -> m.task.id
          [] k = "title" -> m.task.title
          [] k = "time_created" -> m.task.time_created
          [] k = "dependencies" -> m.dependencies
          [] k = "time_started" -> m.task.time_started[1]
          [] k = "time_completed" -> m.task.time_completed[1]
          [] k = "tags" -> m.task.tags]

\* Deserialize for TaskDiskModel: the keys with #[serde(default)] may be
\* missing.
TaskDiskModel_valid(o) == {"id", "title", "time_created"} \subseteq DOMAIN o

TaskDiskModel_deserialize(o) ==
    [task |-> [id |-> o["id"], title |-> o["title"], time_created |-> o["time_created"],
               time_started |-> IF "time_started" \in DOMAIN o
                                THEN Some(o["time_started"]) ELSE None,
               time_completed |-> IF "time_completed" \in DOMAIN o
                                  THEN Some(o["time_completed"]) ELSE None,
               tags |-> IF "tags" \in DOMAIN o THEN o["tags"] ELSE <<>>],
     dependencies |-> IF "dependencies" \in DOMAIN o THEN o["dependencies"] ELSE <<>>]

\* Result<_, DatabaseReadError>, or a panic.
Ok(x) == [tag |-> "Ok", val |-> Some(x), err |-> <<>>]
Err(e) == [tag |-> "Err", val |-> None, err |-> e]
Panicked == [tag |-> "Panic", val |-> None, err |-> <<>>]

UnknownVersion(v) == <<"UnknownVersion", v>>
JsonError == <<"JsonError">>
IoError == <<"IoError">>

\* serde_json::to_value(db): Serialize for Database goes through the disk model.
to_value(d) ==
    LET model == DatabaseDiskModel_from(d)
    IN  [panic |-> model.panic,
         value |-> [tasks |-> [k \in 1..Len(model.tasks) |->
                                  TaskDiskModel_serialize(model.tasks[k])]]]

\* serde_json::from_value(data): Deserialize for Database.
from_value(data) ==
    IF ~("tasks" \in DOMAIN data /\ \A k \in 1..Len(data["tasks"]) :
                                       TaskDiskModel_valid(data["tasks"][k]))
    THEN Err(JsonError)
    ELSE LET model == [tasks |-> [k \in 1..Len(data["tasks"]) |->
                                     TaskDiskModel_deserialize(data["tasks"][k])]]
             r == Database_from(model)
         IN  IF r.panic THEN Panicked ELSE Ok(r.db)

\* What the caller can see of a Database without calling it.
LiveIds(d) == {d.graph.nodes[i][1].id : i \in {j \in 1..Len(d.graph.nodes) : d.graph.nodes[j] # None}}

\* The caller's record: the last call, its outcome, and the calls so far.
\* held is the ids the caller has added and not removed since; fresh says
\* that every add_task so far brought an id the caller did not hold.
DbCall(op, id, to, panic, prev, known, isfresh) ==
    [op |-> op, id |-> id, to |-> to, panic |-> panic,
     seq |-> prev.seq + 1,
     adds |-> prev.adds + (IF op = "add_task" THEN 1 ELSE 0),
     removes |-> prev.removes + (IF op = "remove_task" THEN 1 ELSE 0),
     known |-> known,
     valid |-> prev.valid /\ known,
     held |-> CASE op = "add_task" -> prev.held \cup {id}
                [] op = "remove_task" -> prev.held \ {id}
                [] OTHER -> prev.held,
     fresh |-> prev.fresh /\ isfresh]

DbCall_none ==
    [op |-> "new", id |-> "-", to |-> "-", panic |-> FALSE, seq |-> 0,
     known |-> TRUE, adds |-> 0, removes |-> 0, valid |-> TRUE, held |-> {},
     fresh |-> TRUE]

(***************************************************************************)
(* The database file (database_file.rs) and start-up (AppState::create).   *)
(***************************************************************************)
\* What the path holds: nothing, bytes that are no JSON envelope, or the
\* JSON envelope {"version": v, "data": data}.
Absent == <<"absent">>
Garbage == <<"garbage">>
File(v, data) == <<"file", v, data>>

NotStarted == [tag |-> "NotStarted", val |-> None, err |-> <<>>]

\* DatabaseImpl::VERSION
VERSION_next == 1 + 1

VERSION == 1

\* Outcomes of a file system call; a failed write may leave partial bytes.
IoOutcomes == {"ok", "fail", "fail_partial"}

\* DatabaseFile::read: the bytes, then serde_json::from_slice; version is a u8.
read(d, outcome) ==
    IF outcome # "ok" \/ d = Absent THEN Err(IoError)
    ELSE IF d = Garbage \/ d[2] \notin 0..255 THEN Err(JsonError)
    ELSE Ok([version |-> d[2], data |-> d[3]])

\* DatabaseFile::write: the result and what the path holds afterwards.
write(file, d, outcome) ==
    CASE outcome = "ok" -> [result |-> Ok(Unit), disk |-> File(file.version, file.data)]
      [] outcome = "fail" -> [result |-> Err(IoError), disk |-> d]
      [] outcome = "fail_partial" -> [result |-> Err(IoError), disk |-> Garbage]

\* Default for DatabaseFile
DatabaseFile_default ==
    [version |-> VERSION, data |-> to_value(Database_default).value]

\* From<&Database> for DatabaseFile
DatabaseFile_from(d) == [version |-> VERSION, data |-> to_value(d).value]

try_into_decodefirst(file) ==
    LET decoded == from_value(file.data)
    IN  IF decoded.tag # "Ok" THEN decoded
        ELSE IF file.version # 1 THEN Err(UnknownVersion(file.version))
        ELSE decoded

\* TryInto<Database> for DatabaseFile
try_into(file) ==
    IF file.version # 1
    THEN Err(UnknownVersion(file.version))
    ELSE from_value(file.data)

\* One file operation, as logged in io.
IoExists(b) == [op |-> "exists", ok |-> b, file |-> None]
IoRead(r) == [op |-> "read", ok |-> r.tag = "Ok", file |-> r.val]
IoWrite(file, r) == [op |-> "write", ok |-> r.tag = "Ok", file |-> Some(file)]

AppState_create_nowrite(d, outcome) ==
    IF d = Absent
    THEN [app |-> try_into(DatabaseFile_default), disk |-> d, io |-> <<IoExists(FALSE)>>]
    ELSE LET r == read(d, outcome)
         IN  [app |-> IF r.tag = "Ok" THEN try_into(r.val[1]) ELSE r,
              disk |-> d,
              io |-> <<IoExists(TRUE), IoRead(r)>>]

\* AppState::create (and main before it): the value returned, what the path
\* holds afterwards, and the file operations made.
AppState_create(d, outcome) ==
    IF d = Absent
    THEN LET db_info == DatabaseFile_default
             w == write(db_info, d, outcome)
         IN  [app |-> IF w.result.tag = "Ok" THEN try_into(db_info) ELSE w.result,
              disk |-> w.disk,
              io |-> <<IoExists(FALSE), IoWrite(db_info, w.result)>>]
    ELSE LET r == read(d, outcome)
         IN  [app |-> IF r.tag = "Ok" THEN try_into(r.val[1]) ELSE r,
              disk |-> d,
              io |-> <<IoExists(TRUE), IoRead(r)>>]

\* Files found at the path: tasks per file, versions, dependency lists.
MaxFileTasks == 2

\* Edits saved in one run.
MaxSaves == 1

Versions == {0, 1, 2, 99, 255, 256}

DependencyLists == {<<>>, <<"a", "b">>, <<"b">>, <<"c">>, <<"b", "b">>}

TaskObjects ==
    {TaskDiskModel_serialize([task |-> t, dependencies |-> deps]) :
        t \in TaskPool, deps \in DependencyLists}
    \cup {[id |-> "a", time_created |-> 1]}

DataInputs ==
    {[tasks |-> ts] : ts \in UNION {[1..n -> TaskObjects] : n \in 0..MaxFileTasks}}
    \cup {[title |-> "no tasks"]}

DiskInputs ==
    {Absent, Garbage} \cup {File(v, data) : v \in Versions, data \in DataInputs}

(***************************************************************************)
(* The component collection, td-tui/src/ui/component_collection.rs, with   *)
(* two kinds of component: the TestComponent of its tests, which handles   *)
(* no key, and the ConfirmationModal of modal/confirmation.rs.             *)
(***************************************************************************)
\* Components in one collection.
MaxComponents == 3

\* Keys: cancel, the left/right option key, and one that no modal binds.
KeyEvents == {"Esc", "Left", "Tab"}

TestComponent == [type |-> "TestComponent", title |-> None, selected_value |-> None]

\* ConfirmationModal::new(text).with_title(title)
ConfirmationModal_new(title) ==
    [type |-> "ConfirmationModal", title |-> Some(title), selected_value |-> None]

\* The components handed to insert.
Items ==
    {TestComponent, ConfirmationModal_new("Delete Task"), ConfirmationModal_new("Quit")}

is_open(c) == c.selected_value # None
open(c, default_value) == [c EXCEPT !.selected_value = Some(default_value)]
close(c) == [c EXCEPT !.selected_value = None]

\* Component::process_input of one component: the component afterwards and
\* the bool it returned.
Component_process_input(c, key) ==
    IF c.type = "TestComponent" THEN [c |-> c, ret |-> FALSE]
    ELSE IF is_open(c) /\ key = "Esc" THEN [c |-> close(c), ret |-> TRUE]
    ELSE IF c.selected_value = None THEN [c |-> c, ret |-> FALSE]
    ELSE IF key = "Left"
         THEN [c |-> [c EXCEPT !.selected_value = Some(~@[1])], ret |-> TRUE]
         ELSE [c |-> c, ret |-> FALSE]

ComponentCollection_default == <<>>

CollectionKey(i, type) == [index |-> i, data |-> type]

\* insert with the returned key counted from 1.
ComponentCollection_insert_onebased(self, item) ==
    LET pushed == Append(self, item)
    IN  [components |-> pushed, key |-> CollectionKey(Len(pushed), item.type)]

ComponentCollection_insert(self, item) ==
    LET pushed == Append(self, item)
    IN  [components |-> pushed, key |-> CollectionKey(Len(pushed) - 1, item.type)]

\* Index and IndexMut: Vec indexing, then the downcast to the key's type.
ComponentCollection_index(self, key) ==
    IF key.index >= Len(self) THEN [panic |-> TRUE, at |-> 0]
    ELSE IF self[key.index + 1].type # key.data THEN [panic |-> TRUE, at |-> 0]
    ELSE [panic |-> FALSE, at |-> key.index + 1]

\* The loop of process_input from component i on; offered lists the
\* components whose process_input has been called.
RECURSIVE offer(_, _, _, _)
offer(self, key, i, offered) ==
    IF i > Len(self) THEN [components |-> self, ret |-> FALSE, offered |-> offered]
    ELSE LET r == Component_process_input(self[i], key)
         IN  IF r.ret
             THEN [components |-> [self EXCEPT ![i] = r.c], ret |-> TRUE,
                   offered |-> Append(offered, i)]
             ELSE offer([self EXCEPT ![i] = r.c], key, i + 1, Append(offered, i))

\* The loop without the early return.
RECURSIVE offer_all(_, _, _, _, _)
offer_all(self, key, i, offered, any) ==
    IF i > Len(self) THEN [components |-> self, ret |-> any, offered |-> offered]
    ELSE LET r == Component_process_input(self[i], key)
         IN  offer_all([self EXCEPT ![i] = r.c], key, i + 1, Append(offered, i),
                       any \/ r.ret)

ComponentCollection_process_input_all(self, key) == offer_all(self, key, 1, <<>>, FALSE)

ComponentCollection_process_input(self, key) == offer(self, key, 1, <<>>)

\* No process_input call yet.
NoInput == [key |-> "-", before |-> <<>>, ret |-> FALSE, offered |-> <<>>]

(***************************************************************************)
(* td-util/src/undo.rs: UndoWrapper<T>.  T is the integers in the claims   *)
(* about the wrapper alone and the Database where the interface wraps the  *)
(* store (AppState::database).                                             *)
(***************************************************************************)
\* The closures handed to modify: |_| (), |x| *x += 1, |x| *x += 10.
Funcs == {"nop", "inc", "add10"}

\* The closures the interface hands to modify (task_list.rs, handle_modals):
\* each makes one call on the Database.
DbFuncs ==
    {"add_task a", "add_task b", "remove_task a", "remove_task b",
     "add_dependency a b", "add_dependency b a",
     "add_dependency a a", "add_dependency b b",
     "rename a", "rename b", "new_tag a", "new_tag b",
     "mark_started a", "mark_started b", "mark_done a", "mark_done b"}

\* OffsetDateTime::now_local() at the time of a key press.
now == 2

\* db[id].title = text and db[id].tags.push(text), through IndexMut.
rename(d, task_id, text) ==
    LET node_index == get_node_index(d, task_id)
    IN  [d EXCEPT !.graph.nodes[node_index[1]] = Some([@[1] EXCEPT !.title = text])]

new_tag(d, task_id, text) ==
    LET node_index == get_node_index(d, task_id)
    IN  [d EXCEPT !.graph.nodes[node_index[1]] = Some([@[1] EXCEPT !.tags = Append(@, text)])]

\* The closures of the "mark started" and "mark done" keys
\* (task_list.rs, process_input): set the time if there is none, clear it
\* otherwise.
mark_started(d, task_id) ==
    LET node_index == get_node_index(d, task_id)
    IN  [d EXCEPT !.graph.nodes[node_index[1]] =
            Some([@[1] EXCEPT !.time_started = IF @ = None THEN Some(now) ELSE None])]

mark_done(d, task_id) ==
    LET node_index == get_node_index(d, task_id)
    IN  [d EXCEPT !.graph.nodes[node_index[1]] =
            Some([@[1] EXCEPT !.time_completed = IF @ = None THEN Some(now) ELSE None])]

dbfunc(f, d) ==
    CASE f = "add_task a" -> add_task(d, Task("a", "Buy milk", None, <<>>))
      [] f = "add_task b" -> add_task(d, Task("b", "Go to store", None, <<>>))
      [] f = "remove_task a" -> remove_task(d, "a")
      [] f = "remove_task b" -> remove_task(d, "b")
      [] f = "add_dependency a b" -> add_dependency(d, "a", "b").db
      [] f = "add_dependency b a" -> add_dependency(d, "b", "a").db
      [] f = "add_dependency a a" -> add_dependency(d, "a", "a").db
      [] f = "add_dependency b b" -> add_dependency(d, "b", "b").db
      [] f = "rename a" -> rename(d, "a", "Buy bread")
      [] f = "rename b" -> rename(d, "b", "Buy bread")
      [] f = "new_tag a" -> new_tag(d, "a", "food")
      [] f = "new_tag b" -> new_tag(d, "b", "food")
      [] f = "mark_started a" -> mark_started(d, "a")
      [] f = "mark_started b" -> mark_started(d, "b")
      [] f = "mark_done a" -> mark_done(d, "a")
      [] f = "mark_done b" -> mark_done(d, "b")

func(f, x) ==
    IF f \in DbFuncs THEN dbfunc(f, x)
    ELSE CASE x = Panic -> Panic
           [] f = "nop" -> x
           [] f = "inc" -> x + 1
           [] f = "add10" -> x + 10

\* The state given to UndoWrapper::new.
initial_state == 0

\* The wrapper as one value, for the operators below.
Self == [states |-> states, current_index |-> current_index, clean_index |-> clean_index]

new_clean(t) == [states |-> <<t>>, current_index |-> 0, clean_index |-> Some(0)]

new(t) == [states |-> <<t>>, current_index |-> 0, clean_index |-> None]

state(w) ==
    IF w.current_index >= 0 /\ w.current_index < Len(w.states)
    THEN w.states[w.current_index + 1]
    ELSE Panic

\* Vec::truncate(n): keeps the first n elements, no effect when n >= len.
truncate(s, n) == IF n >= Len(s) THEN s ELSE SubSeq(s, 1, n)

clear_redo_states_geq(w) ==
    [w EXCEPT !.states = truncate(w.states, w.current_index + 1),
              !.clean_index = IF w.clean_index # None /\ w.clean_index[1] >= w.current_index
                              THEN None ELSE w.clean_index]

clear_redo_states_keepclean(w) ==
    [w EXCEPT !.states = truncate(w.states, w.current_index + 1)]

clear_redo_states_notrunc(w) ==
    [w EXCEPT !.clean_index = IF w.clean_index # None /\ w.clean_index[1] > w.current_index
                              THEN None ELSE w.clean_index]

clear_redo_states(w) ==
    [w EXCEPT !.states = truncate(w.states, w.current_index + 1),
              !.clean_index = IF w.clean_index # None /\ w.clean_index[1] > w.current_index
                              THEN None ELSE w.clean_index]

modify_inplace(w, f) ==
    LET c == clear_redo_states(w)
    IN  [c EXCEPT !.states[c.current_index + 1] = func(f, state(c))]

modify_nocursor(w, f) ==
    LET c == clear_redo_states(w)
        pushed == [c EXCEPT !.states = Append(c.states, state(c))]
    IN  [pushed EXCEPT !.states[Len(pushed.states)] = func(f, pushed.states[Len(pushed.states)])]

modify(w, f) ==
    LET c == clear_redo_states(w)
        pushed == [c EXCEPT !.states = Append(c.states, state(c)),
                            !.current_index = c.current_index + 1]
    IN  [pushed EXCEPT !.states[pushed.current_index + 1] = func(f, state(pushed))]

\* An undo that drops the snapshot it leaves.
undo_pop(w) ==
    IF w.current_index > 0
    THEN [w |-> [w EXCEPT !.states = SubSeq(w.states, 1, w.current_index),
                          !.current_index = w.current_index - 1],
          ret |-> TRUE]
    ELSE [w |-> w, ret |-> FALSE]

undo_noguard(w) ==
    [w |-> [w EXCEPT !.current_index = w.current_index - 1], ret |-> TRUE]

undo_true(w) ==
    IF w.current_index > 0
    THEN [w |-> [w EXCEPT !.current_index = w.current_index - 1], ret |-> TRUE]
    ELSE [w |-> w, ret |-> TRUE]

undo(w) ==
    IF w.current_index > 0
    THEN [w |-> [w EXCEPT !.current_index = w.current_index - 1], ret |-> TRUE]
    ELSE [w |-> w, ret |-> FALSE]

undo_count(w) == w.current_index

redo_offbyone(w) ==
    IF w.current_index < Len(w.states)
    THEN [w |-> [w EXCEPT !.current_index = w.current_index + 1], ret |-> TRUE]
    ELSE [w |-> w, ret |-> FALSE]

redo(w) ==
    IF w.current_index < Len(w.states) - 1
    THEN [w |-> [w EXCEPT !.current_index = w.current_index + 1], ret |-> TRUE]
    ELSE [w |-> w, ret |-> FALSE]

redo_count_offbyone(w) == Len(w.states) - w.current_index

redo_count(w) == Len(w.states) - 1 - w.current_index

mark_clean(w) == [w EXCEPT !.clean_index = Some(w.current_index)]

is_dirty_anyclean(w) == w.clean_index = None

is_dirty(w) == w.clean_index # Some(w.current_index)

\* One entry of the caller's log.
Entry(op, f, ret, w) ==
    [op |-> op, f |-> f, ret |-> ret, idx |-> undo_count(w), obs |-> state(w)]

Install(w) ==
    /\ states' = w.states
    /\ current_index' = w.current_index
    /\ clean_index' = w.clean_index

Init ==
    /\ states = new(initial_state).states
    /\ current_index = new(initial_state).current_index
    /\ clean_index = new(initial_state).clean_index
    /\ calls = <<>>
    /\ db = Database_default
    /\ dbcall = DbCall_none
    /\ disk = Absent
    /\ app = NotStarted
    /\ io = <<>>
    /\ components = ComponentCollection_default
    /\ keys = <<>>
    /\ input = NoInput

Modify ==
    /\ Len(calls) < MaxCalls
    /\ UNCHANGED <<dbvars, filevars, uivars>>
    /\ \E f \in Funcs :
          LET w == modify(Self, f)
          IN  /\ Install(w)
              /\ calls' = Append(calls, Entry("modify", f, Unit, w))

Undo ==
    /\ Len(calls) < MaxCalls
    /\ UNCHANGED <<dbvars, filevars, uivars>>
    /\ LET r == undo(Self)
       IN  /\ Install(r.w)
           /\ calls' = Append(calls, Entry("undo", "-", Bool(r.ret), r.w))

Redo ==
    /\ Len(calls) < MaxCalls
    /\ UNCHANGED <<dbvars, filevars, uivars>>
    /\ LET r == redo(Self)
       IN  /\ Install(r.w)
           /\ calls' = Append(calls, Entry("redo", "-", Bool(r.ret), r.w))

MarkClean ==
    /\ Len(calls) < MaxCalls
    /\ UNCHANGED <<dbvars, filevars, uivars>>
    /\ LET w == mark_clean(Self)
       IN  /\ Install(w)
           /\ calls' = Append(calls, Entry("mark_clean", "-", Unit, w))

Next == Modify \/ Undo \/ Redo \/ MarkClean

Spec == Init /\ [][Next]_vars

(***************************************************************************)
(* The store's operations, called on a Database::default().  A panic ends  *)
(* the process: no call follows it.                                        *)
(***************************************************************************)
CanAddNode(d) == d.graph.free_node # <<>> \/ Len(d.graph.nodes) < MaxNodes
CanAddEdge(d) == d.graph.free_edge # <<>> \/ Len(d.graph.edges) < MaxEdges

DbRunning == dbcall.seq < MaxDbCalls /\ ~dbcall.panic

AddTask ==
    /\ DbRunning
    /\ CanAddNode(db)
    /\ \E task \in TaskPool :
          /\ db' = add_task(db, task)
          /\ dbcall' = DbCall("add_task", task.id, "-", FALSE, dbcall, TRUE,
                              task.id \notin dbcall.held)
    /\ UNCHANGED <<undovars, filevars, uivars>>

RemoveTask ==
    /\ DbRunning
    /\ \E task_id \in Ids :
          /\ db' = remove_task(db, task_id)
          /\ dbcall' = DbCall("remove_task", task_id, "-", FALSE, dbcall,
                              task_id \in LiveIds(db), TRUE)
    /\ UNCHANGED <<undovars, filevars, uivars>>

AddDependency ==
    /\ DbRunning
    /\ CanAddEdge(db)
    /\ \E from \in Ids : \E to \in Ids :
          LET r == add_dependency(db, from, to)
          IN  /\ db' = r.db
              /\ dbcall' = DbCall("add_dependency", from, to, r.panic, dbcall,
                                  {from, to} \subseteq LiveIds(db), TRUE)
    /\ UNCHANGED <<undovars, filevars, uivars>>

NextDb == AddTask \/ RemoveTask \/ AddDependency

SpecDb == Init /\ [][NextDb]_vars

(***************************************************************************)
(* Start-up on a path, then saving (ui/mod.rs writes the database after    *)
(* an edit and unwraps the result).                                        *)
(***************************************************************************)
InitFile ==
    /\ states = new(initial_state).states
    /\ current_index = new(initial_state).current_index
    /\ clean_index = new(initial_state).clean_index
    /\ calls = <<>>
    /\ db = Database_default
    /\ dbcall = DbCall_none
    /\ disk \in DiskInputs
    /\ app = NotStarted
    /\ io = <<>>
    /\ components = ComponentCollection_default
    /\ keys = <<>>
    /\ input = NoInput

Create ==
    /\ app = NotStarted
    /\ \E outcome \in IoOutcomes :
          LET r == AppState_create(disk, outcome)
          IN  /\ app' = r.app
              /\ disk' = r.disk
              /\ io' = r.io
              /\ db' = IF r.app.tag = "Ok" THEN r.app.val[1] ELSE db
    /\ UNCHANGED <<undovars, dbcall, uivars>>

\* The handlers of ui/mod.rs that edit the database: each saves it at once
\* and unwraps the result, so a failed write ends the program.
Handling == app.tag = "Ok" /\ Len(io) < 2 + MaxSaves

Saved(edited, outcome) ==
    LET db_info == DatabaseFile_from(edited)
        w == write(db_info, disk, outcome)
    IN  /\ db' = edited
        /\ disk' = w.disk
        /\ io' = Append(io, IoWrite(db_info, w.result))
        /\ app' = IF w.result.tag = "Ok" THEN Ok(edited) ELSE Panicked

CreateTask ==
    /\ Handling
    /\ CanAddNode(db)
    /\ \E task \in TaskPool : \E outcome \in IoOutcomes :
          Saved(add_task(db, task), outcome)
    /\ UNCHANGED <<undovars, dbcall, uivars>>

DeleteTask ==
    /\ Handling
    /\ \E task_id \in LiveIds(db) : \E outcome \in IoOutcomes :
          Saved(remove_task(db, task_id), outcome)
    /\ UNCHANGED <<undovars, dbcall, uivars>>

DependOn ==
    /\ Handling
    /\ CanAddEdge(db)
    /\ \E from \in LiveIds(db) : \E to \in LiveIds(db) : \E outcome \in IoOutcomes :
          LET r == add_dependency(db, from, to)
          IN  IF r.panic
              THEN /\ app' = Panicked
                   /\ UNCHANGED <<db, disk, io>>
              ELSE Saved(r.db, outcome)
    /\ UNCHANGED <<undovars, dbcall, uivars>>

NextFile == Create \/ CreateTask \/ DeleteTask \/ DependOn

SpecFile == InitFile /\ [][NextFile]_vars

(***************************************************************************)
(* Reading the caller's log.                                               *)
(***************************************************************************)
N == Len(calls)

\* What undo_count() and state() answered before the j-th call.
IdxBefore(j) == IF j = 1 THEN 0 ELSE calls[j - 1].idx
ObsBefore(j) == IF j = 1 THEN initial_state ELSE calls[j - 1].obs

\* The calls at positions a..b are all calls of op.
AllOp(a, b, op) == \A j \in a..b : calls[j].op = op

Ops == [j \in 1..N |-> calls[j].op]

\* C1: in every state reachable from new by modify, undo, redo and
\* mark_clean, the history is non-empty and current_index is below its
\* length, so state() does not fail.
C1_HistoryNonEmptyCursorInRange ==
    /\ Len(states) > 0
    /\ current_index >= 0
    /\ Len(states) > current_index
    /\ state(Self) # Panic

C1_Witness ==
    /\ \A op \in {"modify", "undo", "redo", "mark_clean"} : \E j \in 1..N : calls[j].op = op
    /\ \E j \in 1..N : calls[j].op = "undo" /\ calls[j].ret = Bool(FALSE)
    /\ Len(states) >= 2

\* C2: on a fresh wrapper, after n calls to modify and no other call,
\* undo_count() is n and redo_count() is 0, for every n >= 0.
C2_CountsAfterModifies ==
    AllOp(1, N, "modify") => undo_count(Self) = N /\ redo_count(Self) = 0

C2_Witness == N >= 3 /\ AllOp(1, N, "modify") /\ undo_count(Self) = N

\* C3: after n modify calls and then k <= n undo calls, undo_count() is n-k
\* and redo_count() is k; each of the (at most k) redo calls that follow
\* lowers redo_count() by one and raises undo_count() by one.
C3_CountsAfterUndoRedo ==
    \A n \in 0..N : \A k \in 0..(N - n) :
        LET j == N - n - k
        IN  ( /\ k <= n
              /\ j <= k
              /\ AllOp(1, n, "modify")
              /\ AllOp(n + 1, n + k, "undo")
              /\ AllOp(n + k + 1, N, "redo") )
            => /\ undo_count(Self) = n - k + j
               /\ redo_count(Self) = k - j

C3_Witness ==
    /\ Ops = <<"modify", "modify", "undo", "undo", "redo">>
    /\ redo_count(Self) = 1

\* C4: a modify made in any reachable state leaves redo_count() at 0 whatever
\* it was before, every snapshot after the old cursor being discarded; a redo
\* made right after the modify returns false and leaves state() unchanged.
C4_ModifyClearsRedo ==
    /\ (N >= 1 /\ calls[N].op = "modify")
          => /\ redo_count(Self) = 0
             /\ Len(states) = IdxBefore(N) + 2
    /\ (N >= 2 /\ calls[N].op = "redo" /\ calls[N - 1].op = "modify")
          => /\ calls[N].ret = Bool(FALSE)
             /\ state(Self) = calls[N - 1].obs
             /\ redo_count(Self) = 0

C4_Witness ==
    /\ Ops = <<"modify", "modify", "undo", "undo", "modify", "redo">>
    /\ calls[5].f = "add10"
    /\ calls[4].idx = 0
    /\ state(Self) = 10

\* The step is a call of op: the log grows by one entry for op.
Called(op) == Len(calls') = Len(calls) + 1 /\ calls'[Len(calls')].op = op
Returned == calls'[Len(calls')].ret

\* C5: undo() returns true exactly when current_index > 0 before the call and
\* then lowers current_index by exactly one; at current_index 0 it returns
\* false and changes nothing, each time it is repeated.
C5_UndoContract ==
    [][ Called("undo") =>
          /\ Returned = Bool(current_index > 0)
          /\ current_index > 0 => current_index' = current_index - 1
          /\ current_index = 0 => UNCHANGED <<states, current_index, clean_index>> ]_vars

C5_Witness ==
    /\ N >= 4
    /\ SubSeq(Ops, N - 3, N) = <<"modify", "undo", "undo", "undo">>
    /\ calls[N - 2].ret = Bool(TRUE)
    /\ calls[N - 1].ret = Bool(FALSE)
    /\ calls[N].ret = Bool(FALSE)

\* C6: redo() returns true exactly when a later snapshot exists
\* (current_index < len(states) - 1) before the call and then raises
\* current_index by exactly one; otherwise it returns false and changes
\* nothing, each time it is repeated.
C6_RedoContract ==
    [][ Called("redo") =>
          /\ Returned = Bool(current_index < Len(states) - 1)
          /\ current_index < Len(states) - 1 => current_index' = current_index + 1
          /\ ~(current_index < Len(states) - 1)
                => UNCHANGED <<states, current_index, clean_index>> ]_vars

C6_Witness ==
    /\ N >= 5
    /\ SubSeq(Ops, N - 4, N) = <<"modify", "undo", "redo", "redo", "redo">>
    /\ calls[N - 2].ret = Bool(TRUE)
    /\ calls[N - 1].ret = Bool(FALSE)
    /\ calls[N].ret = Bool(FALSE)

\* C7: undo and redo are inverse on the observed state.  After modify(f) and
\* undo(), state() is the value it had before the modify, and a following
\* redo() makes it the value it had right after the modify; the same holds
\* for m stacked modifies undone and redone in order, and for undo/redo
\* alternated any number of times after a modify.
C7_UndoRedoInverse ==
    /\ \A p \in 0..N : \A m \in 1..(N - p) : \A k \in 0..(N - p - m) :
          LET r == N - p - m - k
          IN  ( /\ k <= m
                /\ r <= k
                /\ AllOp(p + 1, p + m, "modify")
                /\ AllOp(p + m + 1, p + m + k, "undo")
                /\ AllOp(p + m + k + 1, N, "redo") )
              => state(Self) = IF m - k + r = 0 THEN ObsBefore(p + 1)
                                                ELSE calls[p + m - k + r].obs
    /\ \A j \in 1..N :
          ( /\ calls[j].op = "modify"
            /\ \A l \in (j + 1)..N :
                  calls[l].op = IF (l - j) % 2 = 1 THEN "undo" ELSE "redo" )
          => state(Self) = IF (N - j) % 2 = 1 THEN ObsBefore(j) ELSE calls[j].obs

C7_Witness ==
    /\ Ops = <<"modify", "modify", "undo", "undo", "redo", "redo">>
    /\ calls[1].obs = 1
    /\ calls[2].obs = 11
    /\ calls[4].obs = 0
    /\ state(Self) = 11

\* The last mark_clean call, and the index it marked.
Marked == \E q \in 1..N : calls[q].op = "mark_clean"
LastMark == CHOOSE q \in 1..N :
                /\ calls[q].op = "mark_clean"
                /\ \A l \in (q + 1)..N : calls[l].op # "mark_clean"
MarkedIdx == calls[LastMark].idx

\* A modify was made below the marked index since the last mark_clean.
ModifiedBelowMark ==
    \E j \in (LastMark + 1)..N : calls[j].op = "modify" /\ IdxBefore(j) < MarkedIdx

\* C8: is_dirty() is false right after mark_clean(), and true right after
\* any modify(f) that follows it, also for an f that changes nothing.
C8_DirtyAfterMarkAndModify ==
    N >= 1 =>
        /\ calls[N].op = "mark_clean" => ~is_dirty(Self)
        /\ (calls[N].op = "modify" /\ Marked) => is_dirty(Self)

C8_Witness ==
    /\ N >= 2
    /\ calls[N - 1].op = "mark_clean"
    /\ calls[N].op = "modify"
    /\ calls[N].f = "nop"
    /\ calls[N].obs = calls[N - 1].obs
    /\ is_dirty(Self)

\* C9: after mark_clean() at index c and any modifies made at or after c,
\* is_dirty() is false whenever undo/redo has the cursor at exactly c, and
\* true at every other cursor position.
C9_CleanAgainAtMarkedIndex ==
    (Marked /\ ~ModifiedBelowMark) => (is_dirty(Self) <=> current_index # MarkedIdx)

C9_Witness ==
    /\ Marked
    /\ ~ModifiedBelowMark
    /\ MarkedIdx >= 1
    /\ \E j \in (LastMark + 1)..N : calls[j].op = "modify" /\ IdxBefore(j) = MarkedIdx
    /\ calls[N].op = "undo"
    /\ current_index = MarkedIdx
    /\ ~is_dirty(Self)

\* C10: once the cursor was undone below the clean index c and modify was
\* called there, is_dirty() is true after that modify and stays true under
\* every later undo/redo/modify until the next mark_clean(), also when the
\* cursor is back at index c.
C10_EditWipesFutureClean ==
    (Marked /\ ModifiedBelowMark) => is_dirty(Self)

C10_Witness ==
    /\ Marked
    /\ ModifiedBelowMark
    /\ current_index = MarkedIdx
    /\ calls[N].op \in {"undo", "redo"}
    /\ is_dirty(Self)

(***************************************************************************)
(* Reading the store.                                                      *)
(***************************************************************************)
\* The step is a call of op on the Database.
DbCalled(op) == dbcall'.seq = dbcall.seq + 1 /\ dbcall'.op = op

LiveNodes(g) == {i \in 1..Len(g.nodes) : g.nodes[i] # None}
LiveEdges(g) == {e \in 1..Len(g.edges) : g.edges[e] # None}
Source(g, e) == g.edges[e][1][1]
Target(g, e) == g.edges[e][1][2]
IdOf(g, i) == g.nodes[i][1].id

\* How many times x occurs in the sequence s.
Count(s, x) == Cardinality({k \in 1..Len(s) : s[k] = x})

\* C11: for every sequence of add_task, remove_task and add_dependency calls
\* with valid ids on an initially empty Database, get_all_tasks() yields as
\* many tasks as there were add_task calls minus remove_task calls.
C11_TaskCount ==
    (dbcall.valid /\ ~dbcall.panic)
        => Len(get_all_tasks(db)) = dbcall.adds - dbcall.removes

C11_Witness ==
    /\ dbcall.valid
    /\ ~dbcall.panic
    /\ dbcall.adds = 3
    /\ dbcall.removes = 2
    /\ dbcall.op = "add_dependency"
    /\ Len(get_all_tasks(db)) = 1

\* C12: remove_task(id) on a known id deletes the node carrying that id and
\* exactly the edges incident to it in either direction; every other task
\* stays resolvable by its id to the same content and every edge between two
\* other tasks is kept; and in every reachable state both endpoints of every
\* edge are live nodes.
C12_EndpointsLive ==
    \A e \in LiveEdges(db.graph) :
        {Source(db.graph, e), Target(db.graph, e)} \subseteq LiveNodes(db.graph)

C12_RemoveStep ==
    (DbCalled("remove_task") /\ dbcall'.known) =>
        \E x \in LiveNodes(db.graph) :
            /\ IdOf(db.graph, x) = dbcall'.id
            /\ LiveNodes(db'.graph) = LiveNodes(db.graph) \ {x}
            /\ \A i \in LiveNodes(db'.graph) : db'.graph.nodes[i] = db.graph.nodes[i]
            /\ LiveEdges(db'.graph) =
                  {e \in LiveEdges(db.graph) :
                      Source(db.graph, e) # x /\ Target(db.graph, e) # x}
            /\ \A e \in LiveEdges(db'.graph) : db'.graph.edges[e] = db.graph.edges[e]
            /\ \A y \in LiveIds(db) \ {dbcall'.id} :
                  /\ ~index(db', y).panic
                  /\ index(db', y) = index(db, y)

C12_RemoveTask == []C12_EndpointsLive /\ [][C12_RemoveStep]_vars

C12_Witness ==
    /\ dbcall.op = "remove_task"
    /\ dbcall.known
    /\ Cardinality(LiveNodes(db.graph)) = 2
    /\ Cardinality(LiveEdges(db.graph)) = 1
    /\ Len(db.graph.free_edge) = 1

\* C13: remove_task(id) with an id that resolves to no node is a no-op: the
\* nodes, the edges and the id-to-index cache are unchanged.
C13_RemoveUnknownNoOp ==
    [][ (DbCalled("remove_task") /\ ~dbcall'.known) => db' = db ]_vars

C13_Witness ==
    /\ dbcall.op = "remove_task"
    /\ ~dbcall.known
    /\ Cardinality(LiveNodes(db.graph)) >= 2
    /\ Cardinality(LiveEdges(db.graph)) >= 1
    /\ db.graph.free_node # <<>>

\* C14: add_dependency(from, to) with both ids known adds exactly one edge
\* from -> to and changes no node and no other edge; with an unknown id it
\* panics and adds no edge.
C14_AddDependency ==
    [][ DbCalled("add_dependency") =>
          IF dbcall'.known
          THEN /\ ~dbcall'.panic
               /\ db'.graph.nodes = db.graph.nodes
               /\ db'.task_id_to_index = db.task_id_to_index
               /\ \E e \in LiveEdges(db'.graph) \ LiveEdges(db.graph) :
                     /\ LiveEdges(db'.graph) = LiveEdges(db.graph) \cup {e}
                     /\ IdOf(db.graph, Source(db'.graph, e)) = dbcall'.id
                     /\ IdOf(db.graph, Target(db'.graph, e)) = dbcall'.to
                     /\ Source(db'.graph, e) = get_node_index(db, dbcall'.id)[1]
                     /\ Target(db'.graph, e) = get_node_index(db, dbcall'.to)[1]
               /\ \A e \in LiveEdges(db.graph) : db'.graph.edges[e] = db.graph.edges[e]
          ELSE /\ dbcall'.panic
               /\ db' = db ]_vars

C14_Witness ==
    /\ dbcall.op = "add_dependency"
    /\ dbcall.known
    /\ dbcall.id = "a"
    /\ dbcall.to = "b"
    /\ Cardinality(LiveEdges(db.graph)) = 2
    /\ \E e \in LiveEdges(db.graph) :
          IdOf(db.graph, Source(db.graph, e)) = "b" /\ IdOf(db.graph, Target(db.graph, e)) = "a"

C14_WitnessPanic ==
    /\ dbcall.op = "add_dependency"
    /\ dbcall.panic
    /\ Cardinality(LiveEdges(db.graph)) >= 1

\* C15: for every two live tasks A and B in every reachable state, B is
\* yielded by get_dependencies(A) as many times as there are edges A -> B,
\* which is also the number of times A is yielded by
\* get_inverse_dependencies(B); both queries panic on an unknown id.  A task
\* is told from another by its id: the ids handed to add_task are fresh.
EdgesBetween(g, i, j) == {e \in LiveEdges(g) : Source(g, e) = i /\ Target(g, e) = j}

SameBag(s, t) ==
    /\ Len(s) = Len(t)
    /\ \A k \in 1..Len(s) : Count(s, s[k]) = Count(t, s[k])

QueryEquivalent(g, h) ==
    /\ LiveIds(g) = LiveIds(h)
    /\ \A x \in Ids :
          /\ index(g, x) = index(h, x)
          /\ get_dependencies(g, x).panic = get_dependencies(h, x).panic
          /\ get_inverse_dependencies(g, x).panic = get_inverse_dependencies(h, x).panic
          /\ SameBag(get_dependencies(g, x).tasks, get_dependencies(h, x).tasks)
          /\ SameBag(get_inverse_dependencies(g, x).tasks,
                     get_inverse_dependencies(h, x).tasks)

InitTui ==
    /\ states = new(Database_default).states
    /\ current_index = new(Database_default).current_index
    /\ clean_index = new(Database_default).clean_index
    /\ calls = <<>>
    /\ db = Database_default
    /\ dbcall = DbCall_none
    /\ disk = Absent
    /\ app = NotStarted
    /\ io = <<>>
    /\ components = ComponentCollection_default
    /\ keys = <<>>
    /\ input = NoInput

ModifyDb(f) ==
    /\ Len(calls) < MaxCalls
    /\ UNCHANGED <<dbvars, filevars, uivars>>
    /\ LET w == modify(Self, f)
       IN  /\ Install(w)
           /\ calls' = Append(calls, Entry("modify", f, Unit, w))

Shown(id) == id \in LiveIds(state(Self))

SubmitCreateTask ==
    /\ CanAddNode(state(Self))
    /\ \/ ~Shown("a") /\ ModifyDb("add_task a")
       \/ ~Shown("b") /\ ModifyDb("add_task b")

SubmitRenameTask ==
    \/ Shown("a") /\ ModifyDb("rename a")
    \/ Shown("b") /\ ModifyDb("rename b")

SubmitDeleteTask ==
    \/ Shown("a") /\ ModifyDb("remove_task a")
    \/ Shown("b") /\ ModifyDb("remove_task b")

SubmitNewTag ==
    \/ Shown("a") /\ ModifyDb("new_tag a")
    \/ Shown("b") /\ ModifyDb("new_tag b")

\* The "mark started" and "mark done" keys on the selected task.
MarkStarted ==
    \/ Shown("a") /\ ModifyDb("mark_started a")
    \/ Shown("b") /\ ModifyDb("mark_started b")

MarkDone ==
    \/ Shown("a") /\ ModifyDb("mark_done a")
    \/ Shown("b") /\ ModifyDb("mark_done b")

\* The dialog with every listed task as a candidate.
Candidate_unfiltered(from, to) == Shown(from) /\ Shown(to)

\* open_add_dependency_dialog: the listed tasks other than the selected one
\* whose id is not among the selected task's dependencies.
Candidate(from, to) ==
    /\ Shown(from)
    /\ Shown(to)
    /\ to # from
    /\ \A k \in 1..Len(get_dependencies(state(Self), from).tasks) :
          get_dependencies(state(Self), from).tasks[k].id # to

\* The closure handed to modify for the selected task and the chosen
\* candidate.
DependOnFunc(from, to) ==
    CASE from = "a" /\ to = "b" -> "add_dependency a b"
      [] from = "b" /\ to = "a" -> "add_dependency b a"
      [] from = "a" /\ to = "a" -> "add_dependency a a"
      [] from = "b" /\ to = "b" -> "add_dependency b b"

SubmitDependOn ==
    /\ CanAddEdge(state(Self))
    /\ \E from \in {"a", "b"} : \E to \in {"a", "b"} :
          Candidate(from, to) /\ ModifyDb(DependOnFunc(from, to))

NextTui ==
    \/ SubmitCreateTask
    \/ SubmitRenameTask
    \/ SubmitDeleteTask
    \/ SubmitNewTag
    \/ SubmitDependOn
    \/ MarkStarted
    \/ MarkDone
    \/ Undo
    \/ Redo

SpecTui == InitTui /\ [][NextTui]_vars

(***************************************************************************)
(* A ComponentCollection in use, as TaskList uses its modals: components   *)
(* are inserted and their keys kept, modals are opened and closed through  *)
(* their keys, and key events are passed to the collection.                *)
(***************************************************************************)
Insert ==
    /\ Len(components) < MaxComponents
    /\ \E item \in Items :
          LET r == ComponentCollection_insert(components, item)
          IN  /\ components' = r.components
              /\ keys' = Append(keys, [key |-> r.key, item |-> item])
    /\ UNCHANGED <<undovars, dbvars, filevars, input>>

\* self.modals[key].open(default_value)
OpenModal ==
    /\ \E k \in 1..Len(keys) : \E default_value \in BOOLEAN :
          LET r == ComponentCollection_index(components, keys[k].key)
          IN  /\ keys[k].key.data = "ConfirmationModal"
              /\ ~r.panic
              /\ components' = [components EXCEPT ![r.at] = open(@, default_value)]
    /\ UNCHANGED <<undovars, dbvars, filevars, keys, input>>

\* self.modals[key].close()
CloseModal ==
    /\ \E k \in 1..Len(keys) :
          LET r == ComponentCollection_index(components, keys[k].key)
          IN  /\ keys[k].key.data = "ConfirmationModal"
              /\ ~r.panic
              /\ is_open(components[r.at])
              /\ components' = [components EXCEPT ![r.at] = close(@)]
    /\ UNCHANGED <<undovars, dbvars, filevars, keys, input>>

ProcessInput ==
    /\ \E key \in KeyEvents :
          LET r == ComponentCollection_process_input(components, key)
          IN  /\ components' = r.components
              /\ input' = [key |-> key, before |-> components, ret |-> r.ret,
                           offered |-> r.offered]
    /\ UNCHANGED <<undovars, dbvars, filevars, keys>>

NextUi == Insert \/ OpenModal \/ CloseModal \/ ProcessInput

SpecUi == Init /\ [][NextUi]_vars

(***************************************************************************)
(* Claims about the database file and start-up.                            *)
(***************************************************************************)
\* Start-up found a file and read an envelope from it.
Loaded == Len(io) >= 2 /\ io[2].op = "read" /\ io[2].ok

LoadedFile == io[2].file[1]

\* Start-up found no file and wrote one.
Bootstrapped == Len(io) >= 2 /\ io[1] = IoExists(FALSE)

\* A well-formed version-1 payload in which some task lists a dependency id
\* that no task of the payload has.
Unresolved(data) ==
    /\ from_value(data) # Err(JsonError)
    /\ LET tasks == [k \in 1..Len(data["tasks"]) |->
                        TaskDiskModel_deserialize(data["tasks"][k])]
           ids == {tasks[k].task.id : k \in 1..Len(tasks)}
       IN  \E k \in 1..Len(tasks) : \E j \in 1..Len(tasks[k].dependencies) :
              tasks[k].dependencies[j] \notin ids

\* C17: loading a version-1 file in which some task lists a dependency id
\* that is not the id of any task of the same file returns a typed load
\* error to the caller and no Database.
C17_UnresolvedIsTypedError ==
    (Loaded /\ LoadedFile.version = 1 /\ Unresolved(LoadedFile.data)) =>
        /\ app.tag = "Err"
        /\ app.val = None

\* C18: converting an envelope whose version n is not 1 yields
\* UnknownVersion(n), whatever its data holds: the version is checked before
\* data is decoded, so a payload that is malformed or has an unresolved
\* dependency id still gives UnknownVersion(n).
C18_UnknownVersion ==
    (Loaded /\ LoadedFile.version # 1) =>
        /\ app = Err(UnknownVersion(LoadedFile.version))
        /\ try_into(LoadedFile) = app

C18_Witness ==
    /\ Loaded
    /\ LoadedFile.version = 99
    /\ from_value(LoadedFile.data) = Err(JsonError)
    /\ app = Err(UnknownVersion(99))

\* C19: every envelope written, the default one at start-up and the one
\* built from the Database after an edit, carries version 1; right after
\* the write, converting it back does not give UnknownVersion, and if the
\* write succeeded the file reads back as the envelope written.
C19_WritesStampVersion ==
    /\ DatabaseFile_default.version = 1
    /\ DatabaseFile_from(db).version = 1
    /\ \A k \in 1..Len(io) : io[k].op = "write" =>
          LET written == io[k].file[1]
          IN  /\ written.version = 1
              /\ k = Len(io) =>
                    /\ try_into(written).err # UnknownVersion(written.version)
                    /\ io[k].ok =>
                          /\ disk = File(1, written.data)
                          /\ read(disk, "ok") = Ok(written)

C19_Witness ==
    /\ Loaded
    /\ Len(io) = 3
    /\ io[3].op = "write"
    /\ io[3].ok
    /\ Len(io[3].file[1].data["tasks"]) = 2
    /\ disk = File(1, io[3].file[1].data)
    /\ try_into(io[3].file[1]) = app

\* C20: bootstrap.  When start-up finds no file, the first file operation
\* after the existence test is a write of the default envelope (version 1,
\* no tasks); if it succeeds the value returned is the empty Database
\* decoded from that envelope and the file holds the envelope; if it fails
\* the write error is returned and there is no Database.  When start-up
\* finds a file it writes nothing and returns what reading and converting
\* the file gives.
C20_Bootstrap ==
    (app.tag # "NotStarted") =>
        /\ Len(io) >= 2
        /\ io[1].op = "exists"
        /\ ~io[1].ok =>
              /\ io[2].op = "write"
              /\ io[2].file = Some(DatabaseFile_default)
              /\ io[2].file[1].version = 1
              /\ io[2].file[1].data["tasks"] = <<>>
              /\ Len(io) = 2 =>
                    IF io[2].ok
                    THEN /\ app = try_into(io[2].file[1])
                         /\ app = Ok(Database_default)
                         /\ db = Database_default
                         /\ disk = File(1, io[2].file[1].data)
                    ELSE /\ app = Err(IoError)
                         /\ app.val = None
                         /\ disk \in {Absent, Garbage}
        /\ io[1].ok =>
              /\ io[2].op = "read"
              /\ Len(io) = 2 =>
                    /\ disk # Absent
                    /\ io[2].ok =>
                          /\ io[2].file = Some([version |-> disk[2], data |-> disk[3]])
                          /\ app = try_into(io[2].file[1])
                    /\ ~io[2].ok => app \in {Err(IoError), Err(JsonError)}

C20_Witness ==
    /\ Bootstrapped
    /\ Len(io) = 2
    /\ io[2].ok
    /\ disk = File(1, [tasks |-> <<>>])
    /\ app = Ok(Database_default)

C20_WitnessWriteFails ==
    /\ Bootstrapped
    /\ ~io[2].ok
    /\ app = Err(IoError)

C20_WitnessExists ==
    /\ Loaded
    /\ Len(io) = 2
    /\ app.tag = "Ok"
    /\ get_all_tasks(app.val[1]) # <<>>

(***************************************************************************)
(* Claims about the wrapper over the store.                                *)
(***************************************************************************)
\* What the k-th call was: the closure of a modify, else the call's name.
Label(k) == IF calls[k].op = "modify" THEN calls[k].f ELSE calls[k].op

\* The calls made so far are exactly seq.
Ran(seq) == Len(calls) = Len(seq) /\ \A k \in 1..Len(seq) : Label(k) = seq[k]

Titles(tasks) == [k \in 1..Len(tasks) |-> tasks[k].title]

Built == <<"add_task a", "add_task b", "add_dependency a b">>

NodesWithId(d, id) == {i \in LiveNodes(d.graph) : d.graph.nodes[i][1].id = id}

\* C22 as stated: in every state reached through add_task, remove_task and
\* add_dependency no two live nodes carry the same id.
C22_UniqueIdsAlways ==
    \A id \in Ids : Cardinality(NodesWithId(db, id)) <= 1

\* C22: as long as every add_task brought an id the caller did not hold
\* (added and not removed since), no two live nodes carry the same id, the
\* live ids are the ids held, and an id resolves to its one node or to none.
C22_UniqueIds ==
    (dbcall.fresh /\ ~dbcall.panic) =>
        /\ LiveIds(db) = dbcall.held
        /\ \A id \in Ids :
              /\ Cardinality(NodesWithId(db, id)) <= 1
              /\ get_node_index(db, id) =
                    (IF NodesWithId(db, id) = {} THEN None
                     ELSE Some(CHOOSE i \in NodesWithId(db, id) : TRUE))

C22_Witness ==
    /\ dbcall.fresh
    /\ ~dbcall.panic
    /\ dbcall.op = "add_task"
    /\ dbcall.id = "a"
    /\ dbcall.removes >= 1
    /\ dbcall.adds >= 3
    /\ Cardinality(LiveIds(db)) >= 2
    /\ Cardinality(NodesWithId(db, "a")) = 1

\* The Database with the cache entry of id dropped, and with no cache at all.
WithoutEntry(d, id) == [d EXCEPT !.task_id_to_index = HashMap_remove(@, id)]
WithoutCache(d) == [d EXCEPT !.task_id_to_index = HashMap_new]

\* C23: db[id] panics exactly when no live node carries id; otherwise it
\* returns the task of a live node carrying id.  While ids are fresh there
\* is one such node, and the answer is the same with the cache entry of id
\* dropped and with the whole cache dropped: the scan finds the node the
\* cache names.
C23_IndexById ==
    ~dbcall.panic =>
        \A id \in Ids :
            /\ index(db, id).panic <=> id \notin LiveIds(db)
            /\ ~index(db, id).panic =>
                  /\ index(db, id).task[1].id = id
                  /\ \E i \in NodesWithId(db, id) : db.graph.nodes[i] = index(db, id).task
            /\ index(WithoutEntry(db, id), id).panic <=> id \notin LiveIds(db)
            /\ dbcall.fresh =>
                  /\ index(WithoutEntry(db, id), id) = index(db, id)
                  /\ index(WithoutCache(db), id) = index(db, id)
                  /\ get_node_index(WithoutEntry(db, id), id) = get_node_index(db, id)

\* The cache has no entry for a live id (left so by a removal under a
\* repeated id) and the scan answers.
C23_Witness ==
    /\ ~dbcall.panic
    /\ "a" \in LiveIds(db)
    /\ "a" \notin DOMAIN db.task_id_to_index
    /\ ~index(db, "a").panic
    /\ index(db, "a").task[1].title = "Buy bread"
    /\ index(db, "c").panic

C23_WitnessFresh ==
    /\ dbcall.fresh
    /\ ~dbcall.panic
    /\ LiveIds(db) = {"b", "c"}
    /\ db.graph.nodes[1] = None
    /\ db.task_id_to_index["c"] = 2
    /\ index(WithoutCache(db), "c").task[1].title = "Walk"
    /\ index(db, "a").panic

\* C24: remove_task(x) leaves every other surviving node where it was: for
\* every other live id the position the cache held before the call is the
\* position it holds after it, the task stored there is the same, and the
\* id resolves to the same position.
C24_RemoveKeepsPositions ==
    [][ DbCalled("remove_task") =>
          /\ \A y \in (LiveIds(db) \cap DOMAIN db.task_id_to_index) \ {dbcall'.id} :
                /\ y \in DOMAIN db'.task_id_to_index
                /\ db'.task_id_to_index[y] = db.task_id_to_index[y]
                /\ contains_node(db'.graph, db.task_id_to_index[y])
                /\ db'.graph.nodes[db.task_id_to_index[y]] =
                      db.graph.nodes[db.task_id_to_index[y]]
          /\ \A y \in LiveIds(db) \ {dbcall'.id} :
                get_node_index(db', y) = get_node_index(db, y)
          /\ \A i \in LiveNodes(db'.graph) : db'.graph.nodes[i] = db.graph.nodes[i] ]_vars

C24_Witness ==
    /\ dbcall.op = "remove_task"
    /\ dbcall.known
    /\ dbcall.fresh
    /\ dbcall.id = "a"
    /\ db.graph.nodes[1] = None
    /\ db.task_id_to_index = [x \in {"b", "c"} |-> IF x = "b" THEN 2 ELSE 3]
    /\ Cardinality(LiveEdges(db.graph)) >= 1

(***************************************************************************)
(* Further claims about the wrapper alone.                                 *)
(***************************************************************************)
\* C25: modify(f) copies, then mutates the copy: after the call the history
\* has old current_index + 2 snapshots and the cursor is at old
\* current_index + 1, the last snapshot is f applied to the snapshot the
\* cursor was on, and every snapshot at an index up to the old cursor is as
\* it was.
C25_ModifyCopies ==
    [][ Called("modify") =>
          /\ Len(states') = current_index + 2
          /\ current_index' = current_index + 1
          /\ states'[Len(states')] = func(calls'[Len(calls')].f, states[current_index + 1])
          /\ \A i \in 0..current_index : states'[i + 1] = states[i + 1] ]_vars

C25_Witness ==
    /\ N >= 4
    /\ SubSeq(Ops, N - 3, N) = <<"modify", "modify", "undo", "modify">>
    /\ calls[N].f = "add10"
    /\ calls[N - 3].f = "inc"
    /\ calls[N - 2].f = "inc"
    /\ Len(states) = current_index + 1
    /\ states[current_index + 1] = states[current_index] + 10
    /\ states[current_index] = calls[N - 3].obs

\* C29: before the first mark_clean() there is no clean marker and
\* is_dirty() is true, wherever modify, undo and redo have put the cursor.
C29_DirtyBeforeFirstMark ==
    ~Marked => (clean_index = None /\ is_dirty(Self))

C29_Witness ==
    /\ ~Marked
    /\ N >= 4
    /\ \E j \in 1..N : calls[j].op = "modify"
    /\ \E j \in 1..N : calls[j].op = "redo" /\ calls[j].ret = Bool(TRUE)
    /\ calls[N].op = "undo"
    /\ current_index = 0
    /\ is_dirty(Self)

\* C30: whenever is_dirty() is false, state() is what state() was at the
\* most recent mark_clean(); as long as the clean marker is set, the
\* snapshot at the clean index is the one that was marked.
C30_CleanContent ==
    /\ (Marked /\ ~is_dirty(Self)) => state(Self) = calls[LastMark].obs
    /\ ~is_dirty(Self) => Marked
    /\ (Marked /\ clean_index # None) =>
          /\ clean_index[1] < Len(states)
          /\ states[clean_index[1] + 1] = calls[LastMark].obs

C30_Witness ==
    /\ Marked
    /\ LastMark >= 2
    /\ N >= LastMark + 3
    /\ \E j \in (LastMark + 1)..N : calls[j].op = "modify" /\ calls[j].f = "add10"
    /\ \E j \in (LastMark + 1)..N : calls[j].op = "redo" /\ calls[j].ret = Bool(TRUE)
    /\ calls[N].op = "undo"
    /\ ~is_dirty(Self)
    /\ state(Self) = calls[LastMark].obs
    /\ state(Self) # initial_state

(***************************************************************************)
(* Further claims about edges and the disk model.                          *)
(***************************************************************************)
\* C26: parallel edges.  add_dependency(A, B) with known ids succeeds
\* whether or not an edge A -> B exists, and leaves one more edge A -> B
\* than before; with fresh ids get_dependencies(A) then yields B, and
\* get_inverse_dependencies(B) yields A, once per such edge, so twice after
\* two calls.
C26_ParallelEdges ==
    [][ (DbCalled("add_dependency") /\ dbcall'.known) =>
          LET i == get_node_index(db, dbcall'.id)[1]
              j == get_node_index(db, dbcall'.to)[1]
              n == Cardinality(EdgesBetween(db.graph, i, j))
          IN  /\ ~dbcall'.panic
              /\ Cardinality(EdgesBetween(db'.graph, i, j)) = n + 1
              /\ dbcall.fresh =>
                    /\ Count(get_dependencies(db', dbcall'.id).tasks,
                             index(db', dbcall'.to).task[1]) = n + 1
                    /\ Count(get_inverse_dependencies(db', dbcall'.to).tasks,
                             index(db', dbcall'.id).task[1]) = n + 1 ]_vars

C26_Witness ==
    /\ dbcall.op = "add_dependency"
    /\ dbcall.fresh
    /\ dbcall.valid
    /\ dbcall.id = "b"
    /\ dbcall.to = "c"
    /\ Titles(get_dependencies(db, "b").tasks) = <<"Walk", "Walk">>
    /\ Titles(get_inverse_dependencies(db, "c").tasks) = <<"Go to store", "Go to store">>
    /\ Cardinality(LiveEdges(db.graph)) = 2

\* C27: no cycle detection.  In every reachable state add_dependency(x, y)
\* succeeds for every two live ids x and y, x = y included, and adds its
\* edge: also when an edge or a path y -> x exists.  So both edges A -> B
\* and B -> A exist after the two calls, and A -> A after add_dependency(A, A).
C27_NoCycleCheck ==
    ~dbcall.panic =>
        \A x \in LiveIds(db) : \A y \in LiveIds(db) :
            LET r == add_dependency(db, x, y)
            IN  /\ ~r.panic
                /\ r.db.graph.nodes = db.graph.nodes
                /\ Cardinality(LiveEdges(r.db.graph)) = Cardinality(LiveEdges(db.graph)) + 1
                /\ \A e \in LiveEdges(db.graph) : r.db.graph.edges[e] = db.graph.edges[e]
                /\ \E e \in LiveEdges(r.db.graph) \ LiveEdges(db.graph) :
                      /\ Source(r.db.graph, e) = get_node_index(db, x)[1]
                      /\ Target(r.db.graph, e) = get_node_index(db, y)[1]

C27_Witness ==
    /\ dbcall.op = "add_dependency"
    /\ dbcall.fresh
    /\ ~dbcall.panic
    /\ dbcall.id = "a"
    /\ dbcall.to = "a"
    /\ LiveIds(db) = {"a", "b"}
    /\ LET A == get_node_index(db, "a")[1]
           B == get_node_index(db, "b")[1]
       IN  /\ EdgesBetween(db.graph, A, B) # {}
           /\ EdgesBetween(db.graph, B, A) # {}
           /\ EdgesBetween(db.graph, A, A) # {}

\* The k-th live node in storage order.
NthLive(g, k) ==
    CHOOSE i \in LiveNodes(g) : Cardinality({j \in LiveNodes(g) : j < i}) = k - 1

\* C28: the disk model of a Database has one record per live task, in
\* storage order; the dependencies of a task's record are the ids of the
\* targets of the task's outgoing edges, one entry per edge; a record holds
\* a task and a list of ids, no position; and every id in a dependency list
\* is the id of a record of the same model.
C28_ToDiskModel ==
    ~dbcall.panic =>
        LET g == db.graph
            model == DatabaseDiskModel_from(db)
        IN  /\ ~model.panic
            /\ Len(model.tasks) = Cardinality(LiveNodes(g))
            /\ \A k \in 1..Len(model.tasks) :
                  LET record == model.tasks[k]
                      outgoing == {e \in LiveEdges(g) : Source(g, e) = NthLive(g, k)}
                  IN  /\ DOMAIN record = {"task", "dependencies"}
                      /\ record.task = g.nodes[NthLive(g, k)][1]
                      /\ Len(record.dependencies) = Cardinality(outgoing)
                      /\ \A id \in Ids :
                            Count(record.dependencies, id) =
                               Cardinality({e \in outgoing : IdOf(g, Target(g, e)) = id})
                      /\ \A j \in 1..Len(record.dependencies) :
                            /\ record.dependencies[j] \in Ids
                            /\ \E m \in 1..Len(model.tasks) :
                                  model.tasks[m].task.id = record.dependencies[j]

C28_Witness ==
    /\ dbcall.fresh
    /\ ~dbcall.panic
    /\ LiveIds(db) = {"b", "c"}
    /\ db.graph.nodes[1] = None
    /\ db.graph.free_edge # <<>>
    /\ LET model == DatabaseDiskModel_from(db)
       IN  /\ Len(model.tasks) = 2
           /\ model.tasks[1].task.id = "b"
           /\ model.tasks[1].dependencies = <<"c">>
           /\ model.tasks[2].dependencies = <<>>

(***************************************************************************)
(* Implicit properties of the wrapper.                                     *)
(***************************************************************************)
\* C31: in every reachable state undo_count() + redo_count() + 1 is the
\* number of snapshots, and the clean index, when set, is below it.
C31_CountsAndCleanInRange ==
    /\ undo_count(Self) + redo_count(Self) + 1 = Len(states)
    /\ undo_count(Self) >= 0
    /\ redo_count(Self) >= 0
    /\ clean_index # None => (clean_index[1] >= 0 /\ clean_index[1] < Len(states))

C31_Witness ==
    /\ N >= 5
    /\ clean_index # None
    /\ clean_index[1] = Len(states) - 1
    /\ undo_count(Self) >= 1
    /\ redo_count(Self) >= 1
    /\ \E j \in 2..N : calls[j].op = "modify" /\ calls[j - 1].op = "undo"

\* C32: undo(), redo() and mark_clean() leave the snapshots as they are;
\* undo() and redo() leave the clean index, mark_clean() leaves the cursor;
\* an undo() or redo() that returns false changes nothing.
C32_Frames ==
    [][ /\ Called("undo") =>
              /\ states' = states
              /\ clean_index' = clean_index
              /\ Returned = Bool(FALSE) => current_index' = current_index
        /\ Called("redo") =>
              /\ states' = states
              /\ clean_index' = clean_index
              /\ Returned = Bool(FALSE) => current_index' = current_index
        /\ Called("mark_clean") =>
              /\ states' = states
              /\ current_index' = current_index ]_vars

C32_Witness ==
    /\ N >= 5
    /\ Marked
    /\ Len(states) >= 3
    /\ clean_index # None
    /\ calls[N].op = "redo"
    /\ calls[N].ret = Bool(FALSE)
    /\ \E j \in 1..N : calls[j].op = "undo" /\ calls[j].ret = Bool(TRUE)
    /\ \E j \in 1..N : calls[j].op = "redo" /\ calls[j].ret = Bool(TRUE)

(***************************************************************************)
(* Implicit properties of the store and the disk model.                    *)
(***************************************************************************)
\* The cache of d holds exactly one entry per live node: the node's id
\* mapped to the node's position.
CacheExact(d) ==
    /\ DOMAIN d.task_id_to_index = LiveIds(d)
    /\ Cardinality(DOMAIN d.task_id_to_index) = Cardinality(LiveNodes(d.graph))
    /\ \A id \in DOMAIN d.task_id_to_index :
          /\ contains_node(d.graph, d.task_id_to_index[id])
          /\ IdOf(d.graph, d.task_id_to_index[id]) = id
    /\ \A id \in LiveIds(d) :
          get_node_index_nofallback(d, id) = get_node_index(d, id)

FileModel(data) ==
    [tasks |-> [k \in 1..Len(data["tasks"]) |-> TaskDiskModel_deserialize(data["tasks"][k])]]

DistinctIds(m) ==
    \A j \in 1..Len(m.tasks) : \A k \in 1..Len(m.tasks) :
        m.tasks[j].task.id = m.tasks[k].task.id => j = k

\* C34: for every disk model m read from a file, with all dependency ids
\* resolving and distinct task ids, the disk model of the Database built
\* from m is m: the same records in the same order, each with the same
\* dependency ids in the same order.  So the envelope built from the loaded
\* Database is the envelope that was read.
C34_LoadSaveIdentity ==
    (Loaded /\ Len(io) = 2 /\ app.tag = "Ok" /\ DistinctIds(FileModel(LoadedFile.data))) =>
        LET m == FileModel(LoadedFile.data)
            loaded == app.val[1]
        IN  /\ Database_from(m) = [panic |-> FALSE, db |-> loaded]
            /\ DatabaseDiskModel_from(loaded) = [panic |-> FALSE, tasks |-> m.tasks]
            /\ to_value(loaded).value = LoadedFile.data
            /\ DatabaseFile_from(loaded) = LoadedFile

C34_Witness ==
    /\ Loaded
    /\ Len(io) = 2
    /\ app.tag = "Ok"
    /\ DistinctIds(FileModel(LoadedFile.data))
    /\ Len(FileModel(LoadedFile.data).tasks) = 2
    /\ FileModel(LoadedFile.data).tasks[1].dependencies = <<"b", "b">>
    /\ FileModel(LoadedFile.data).tasks[2].dependencies = <<"a", "b">>
    /\ DatabaseDiskModel_from(app.val[1]).tasks[2].dependencies = <<"a", "b">>


(***************************************************************************)
(* Claims about the task list's actions.                                   *)
(***************************************************************************)
\* No edge of d runs from a node to itself and no two edges of d run between
\* the same ordered pair of nodes.
NoSelfOrParallelEdge(d) ==
    /\ \A e \in LiveEdges(d.graph) : Source(d.graph, e) # Target(d.graph, e)
    /\ \A i \in LiveNodes(d.graph) : \A j \in LiveNodes(d.graph) :
          Cardinality(EdgesBetween(d.graph, i, j)) <= 1

C36_OneModifyPerAction ==
    [][ (Len(calls') > Len(calls) /\ calls'[Len(calls')].f \in DbFuncs) =>
          LET after == [states |-> states', current_index |-> current_index',
                        clean_index |-> clean_index']
          IN  /\ Called("modify")
              /\ undo_count(after) = undo_count(Self) + 1
              /\ redo_count(after) = 0
              /\ undo(after).ret
              /\ state(undo(after).w) = state(Self)
              /\ undo_count(undo(after).w) = undo_count(Self) ]_vars

\* A task was created, marked started and marked done, and the last action
\* was undone: it is started and not done.
C36_Witness ==
    /\ Ran(<<"add_task a", "mark_started a", "mark_done a", "undo">>)
    /\ index(state(Self), "a").task[1].time_started = Some(now)
    /\ index(state(Self), "a").task[1].time_completed = None
    /\ states[3] # states[4]
    /\ undo_count(Self) = 2
    /\ redo_count(Self) = 1


(***************************************************************************)
(* Claims about the component collection.                                  *)
(***************************************************************************)
\* The components of the collection cs that report key as handled.
Handlers(cs, key) == {i \in 1..Len(cs) : Component_process_input(cs[i], key).ret}

First(S) == CHOOSE i \in S : \A j \in S : i <= j

\* C37: process_input offers the key to the components in insertion order
\* and stops at the first one that reports it handled, returning true; it
\* returns false only when every component returned false, after offering
\* the key to all of them; components after the handler are left as they
\* were.  Every key returned by insert indexes, without a panic, the
\* component that was inserted with it, at the position it was pushed to.
C37_Dispatch ==
    /\ LET cs == input.before
           H == Handlers(cs, input.key)
           last == IF H = {} THEN Len(cs) ELSE First(H)
       IN  input # NoInput =>
             /\ input.ret = (H # {})
             /\ input.offered = [i \in 1..last |-> i]
             /\ ~input.ret => \A i \in 1..Len(cs) :
                                ~Component_process_input(cs[i], input.key).ret
    /\ Len(components) = Len(keys)
    /\ \A k \in 1..Len(keys) :
          LET r == ComponentCollection_index(components, keys[k].key)
          IN  /\ ~r.panic
              /\ r.at = k
              /\ components[r.at].type = keys[k].item.type
              /\ components[r.at].title = keys[k].item.title

\* Three components, the second and third open modals: the left/right key
\* was offered to the first two only and changed the second alone.
C37_Witness ==
    /\ Len(input.before) = 3
    /\ input.before[1] = TestComponent
    /\ is_open(input.before[2])
    /\ is_open(input.before[3])
    /\ input.key = "Left"
    /\ input.ret
    /\ input.offered = <<1, 2>>
    /\ components[2] # input.before[2]
    /\ components[3] = input.before[3]
    /\ keys[3].item.title = Some("Quit")
    /\ keys[2].item.title = Some("Delete Task")

====
